---- MODULE Spec2Model ----
(* Jobs API microservice: the job resource handlers of app/api/v1/jobs.py  *)
(* over the jobs table of app/models.py.  A request is handled in up to    *)
(* three database round trips (SELECT, commit, refresh); each is one step. *)
EXTENDS Integers, Sequences, FiniteSets, TLC

VARIABLES
  jobs,      \* the rows of the jobs table
  nextId,    \* the next primary key the id default hands out
  sess,      \* per client: the request in flight and its session object
  last,      \* the response being returned, with the request it answers
  messages,  \* what the queue publisher was handed, in order
  touched,   \* history: ids of the rows a replace or update has committed to
  doc,       \* field mapper: the mapping being translated
  orig,      \* field mapper: the wire payload it started from
  stage,     \* field mapper: the naming convention doc is in
  environ,   \* the process environment the queue settings are read from
  publisher, \* queue.py's global _publisher: 0 is None, else an instance
  built,     \* the publisher instances constructed so far, in order
  thr,       \* per thread: its position in get_queue_publisher, its locals
  returned   \* history: the instances get_queue_publisher has returned

svcVars == <<jobs, nextId, sess, last, messages, touched>>

mapVars == <<doc, orig, stage>>

pubVars == <<environ, publisher, built, thr, returned>>

vars == <<jobs, nextId, sess, last, messages, touched, doc, orig, stage,
          environ, publisher, built, thr, returned>>

(* ---------------------------------------------------------------- bounds *)
MaxVersion == 3
MaxIds == 3

(* --------------------------------------------------------- value domains *)
\* Request payloads carry the external id, one required timestamp
\* (datePosted) and one optional text (summary).  The schema leaves the
\* store-assigned id and version out of every payload.  A PATCH may set any
\* of its fields to null, datePosted included.
None == "None"
Clients == {"c1", "c2"}
ExternalIds == {"ext-1", "other-id"}
Dates == {"d1"}
Summaries == {None, "Updated"}

(* ------------------------------------------------------------ the schema *)
\* JobModel: the columns of the jobs table carried by the model
\* (id, version, external_id, one NOT NULL data column, one nullable one).
Columns == {"id", "version", "external_id", "date_posted", "summary"}

\* JobModel: every column of the jobs table
AllColumns ==
  {"id", "version", "external_id", "approach", "title", "description",
   "organisation", "location", "grade", "assignment_type", "work_location",
   "working_pattern", "personal_spec", "apply_detail", "date_posted",
   "closing_date", "profession", "recruitment_email", "contacts",
   "nationality_requirement", "summary", "apply_url", "benefits", "salary",
   "job_numbers", "success_profile_details", "diversity_statement",
   "disability_confident", "dc_status", "redeployment_scheme",
   "prison_scheme", "veteran_scheme", "criminal_record_check",
   "complaints_info", "working_for_the_civil_service", "eligibility_check",
   "attachments"}

\* nullable=False columns of JobModel among Columns
NotNullColumns == {"id", "version", "external_id", "date_posted"}

FIELD_MAP ==
  [k \in {"externalId", "assignmentType", "workLocation", "workingPattern",
          "personalSpec", "applyDetail", "closingDate", "recruitmentEmail",
          "nationalityRequirement", "jobNumbers", "successProfileDetails",
          "diversityStatement", "disabilityConfident", "applyUrl", "dcStatus",
          "redeploymentScheme", "prisonScheme", "veteranScheme",
          "criminalRecordCheck", "complaintsInfo", "workingForTheCivilService",
          "eligibilityCheck", "dateClosing", "datePosted"} |->
     CASE k = "externalId" -> "external_id"
       [] k = "assignmentType" -> "assignment_type"
       [] k = "workLocation" -> "work_location"
       [] k = "workingPattern" -> "working_pattern"
       [] k = "personalSpec" -> "personal_spec"
       [] k = "applyDetail" -> "apply_detail"
       [] k = "closingDate" -> "closing_date"
       [] k = "recruitmentEmail" -> "recruitment_email"
       [] k = "nationalityRequirement" -> "nationality_requirement"
       [] k = "jobNumbers" -> "job_numbers"
       [] k = "successProfileDetails" -> "success_profile_details"
       [] k = "diversityStatement" -> "diversity_statement"
       [] k = "disabilityConfident" -> "disability_confident"
       [] k = "applyUrl" -> "apply_url"
       [] k = "dcStatus" -> "dc_status"
       [] k = "redeploymentScheme" -> "redeployment_scheme"
       [] k = "prisonScheme" -> "prison_scheme"
       [] k = "veteranScheme" -> "veteran_scheme"
       [] k = "criminalRecordCheck" -> "criminal_record_check"
       [] k = "complaintsInfo" -> "complaints_info"
       [] k = "workingForTheCivilService" -> "working_for_the_civil_service"
       [] k = "eligibilityCheck" -> "eligibility_check"
       [] k = "dateClosing" -> "closing_date"
       [] k = "datePosted" -> "date_posted"]

\* FIELD_MAP with the datePosted entry pointing at the closing date column
ColumnOfCollide(key) ==
  IF key = "datePosted" THEN "closing_date"
  ELSE IF key \in DOMAIN FIELD_MAP THEN FIELD_MAP[key] ELSE key

\* FIELD_MAP.get(key, key)
ColumnOf(key) == IF key \in DOMAIN FIELD_MAP THEN FIELD_MAP[key] ELSE key

(* ------------------------------------------------------ value conversion *)
\* Enum members as model_dump hands them over, and their .value
EnumMembers == {"Approach.external", "Approach.internal"}
EnumValue(v) == IF v = "Approach.external" THEN "External" ELSE "Internal"

\* Timestamps without tzinfo, and the same instants stamped with UTC
NaiveDates == {"n1", "n2"}
StampUtc(v) == IF v = "n1" THEN "d1" ELSE "d2"

\* _to_plain on the scalar shapes: None, Enum, datetime, str
ToPlain(value) ==
  IF value = None THEN None
  ELSE IF value \in EnumMembers THEN EnumValue(value)
  ELSE value

\* _ensure_tz
EnsureTz(value) == IF value \in NaiveDates THEN StampUtc(value) ELSE value

\* _normalize_payload: payload is the model_dump(by_alias=True) mapping,
\* its domain the dumped keys (all of them, or the set ones under
\* exclude_unset).
Normalize(payload) ==
  [column \in {ColumnOf(k) : k \in DOMAIN payload} |->
     ToPlain(payload[CHOOSE k \in DOMAIN payload : ColumnOf(k) = column])]

(* -------------------------------------------------------------- responses *)
\* _job_model_to_response, payload dict: the response field fed by a column
ResponseFieldOf(column) ==
  IF column = "closing_date" THEN "date_closing" ELSE column

\* JobResponse serialised by alias: the wire name of a response field
WireAlias(field) ==
  CASE field = "external_id" -> "externalId"
    [] field = "assignment_type" -> "assignmentType"
    [] field = "work_location" -> "workLocation"
    [] field = "working_pattern" -> "workingPattern"
    [] field = "personal_spec" -> "personalSpec"
    [] field = "apply_detail" -> "applyDetail"
    [] field = "date_posted" -> "datePosted"
    [] field = "date_closing" -> "dateClosing"
    [] field = "recruitment_email" -> "recruitmentEmail"
    [] field = "nationality_requirement" -> "nationalityRequirement"
    [] field = "job_numbers" -> "jobNumbers"
    [] field = "success_profile_details" -> "successProfileDetails"
    [] field = "diversity_statement" -> "diversityStatement"
    [] field = "disability_confident" -> "disabilityConfident"
    [] field = "apply_url" -> "applyUrl"
    [] field = "dc_status" -> "dcStatus"
    [] field = "redeployment_scheme" -> "redeploymentScheme"
    [] field = "prison_scheme" -> "prisonScheme"
    [] field = "veteran_scheme" -> "veteranScheme"
    [] field = "criminal_record_check" -> "criminalRecordCheck"
    [] field = "complaints_info" -> "complaintsInfo"
    [] field = "working_for_the_civil_service" -> "workingForTheCivilService"
    [] field = "eligibility_check" -> "eligibilityCheck"
    [] OTHER -> field

\* columns whose value goes through _ensure_tz on the way out
DateColumns == {"date_posted", "closing_date"}

\* storage -> wire: the response body of a row (any mapping column -> value)
JobModelToResponse(job_model) ==
  [w \in {WireAlias(ResponseFieldOf(c)) : c \in DOMAIN job_model} |->
     LET c == CHOOSE c \in DOMAIN job_model : WireAlias(ResponseFieldOf(c)) = w
     IN IF c \in DateColumns THEN EnsureTz(job_model[c]) ELSE job_model[c]]

(* ------------------------------------------------------------- the store *)
EmptyDict == [k \in {} |-> None]

\* a session holding no row
NoJob == [id |-> 0, version |-> 0, external_id |-> None,
          date_posted |-> None, summary |-> None]

\* db.query(JobModel).filter(JobModel.external_id == external_id)
Lookup(external_id) == {r \in jobs : r["external_id"] = external_id}

\* the table without uq_jobs_external_id
IntegrityNoUnique(table) ==
  /\ \A r1, r2 \in table : r1["id"] = r2["id"] => r1 = r2
  /\ \A r \in table : \A c \in NotNullColumns \ {"id", "version"} : r[c] # None

\* the table's constraints: primary key, uq_jobs_external_id, NOT NULL
\* (id and version are always filled by their defaults)
IntegrityOK(table) ==
  /\ \A r1, r2 \in table : r1["id"] = r2["id"] => r1 = r2
  /\ \A r1, r2 \in table : r1["external_id"] = r2["external_id"] => r1 = r2
  /\ \A r \in table : \A c \in NotNullColumns \ {"id", "version"} : r[c] # None

\* JobModel(**normalized) with the version column defaulting to 0
NewJobVersionZero(normalized, id) ==
  [c \in Columns |->
     IF c \in DOMAIN normalized THEN normalized[c]
     ELSE IF c = "id" THEN id
     ELSE IF c = "version" THEN 0
     ELSE None]

\* JobModel(**normalized) as inserted: column defaults fill what is not given
NewJob(normalized, id) ==
  [c \in Columns |->
     IF c \in DOMAIN normalized THEN normalized[c]
     ELSE IF c = "id" THEN id
     ELSE IF c = "version" THEN 1
     ELSE None]

\* for key, value in fields.items(): if key == "id": continue; setattr(...)
ApplyFields(job, fields) ==
  [c \in DOMAIN job |->
     IF c \in DOMAIN fields /\ c # "id" THEN fields[c] ELSE job[c]]

\* the session object with the version bumped only when a field changed
SessionJobBumpOnChange(job, fields) ==
  IF ApplyFields(job, fields) = job THEN job
  ELSE [ApplyFields(job, fields) EXCEPT !["version"] = job["version"] + 1]

\* the session object of replace_job / update_job before the commit
SessionJob(job, fields) ==
  [ApplyFields(job, fields) EXCEPT !["version"] = job["version"] + 1]

\* a flush that rewrites every column of the session object
FlushWholeRow(table, loaded, job) ==
  {IF r["id"] = loaded["id"] THEN job ELSE r : r \in table}

\* the UPDATE the unit of work emits: the columns whose value changed since
\* the row was loaded, written to the row with the loaded primary key
Flush(table, loaded, job) ==
  {IF r["id"] = loaded["id"]
     THEN [c \in DOMAIN r |-> IF job[c] # loaded[c] THEN job[c] ELSE r[c]]
     ELSE r : r \in table}

(* ------------------------------------------------------------- requests *)
\* JobCreatePayload: every field dumped, the required ones never null
CreatePayloads ==
  {p \in [{"externalId", "datePosted", "summary"} ->
            ExternalIds \cup Dates \cup Summaries] :
     /\ p["externalId"] \in ExternalIds
     /\ p["datePosted"] \in Dates
     /\ p["summary"] \in Summaries}

\* JobUpdatePayload: any subset of the fields set, each optional
PatchFields == {"externalId", "datePosted", "summary"}
PatchValues(k) ==
  IF k = "externalId" THEN ExternalIds
  ELSE IF k = "datePosted" THEN Dates \cup {None}
  ELSE Summaries
PatchPayloads ==
  UNION {{p \in [S -> ExternalIds \cup Dates \cup Summaries] :
            \A k \in S : p[k] \in PatchValues(k)} : S \in SUBSET PatchFields}

Idle == [pc |-> "idle", op |-> None, path |-> None,
         updates |-> EmptyDict, loaded |-> NoJob]

NoResponse == [op |-> None, path |-> None, updates |-> EmptyDict,
               read |-> NoJob, status |-> 0, body |-> EmptyDict]

Respond(op, path, updates, read, status, body) ==
  last' = [op |-> op, path |-> path, updates |-> updates, read |-> read,
           status |-> status, body |-> body]

(* ---------------------------------------------- the publisher's settings *)
PubThreads == {"t1", "t2"}

\* the settings get_queue_publisher chooses the transport by
EnvKeys == {"SQS_QUEUE_URL", "SQS_QUEUE_NAME"}

\* os.getenv gives None for an unset variable; a set one may be empty
EnvValues == {None, "", "jobs"}

\* the truth value of a setting in `if queue_url or queue_name`
Truthy(v) == v \notin {None, ""}

\* a thread outside get_queue_publisher
ThreadIdle == [pc |-> "idle", queue_url |-> None, queue_name |-> None,
               made |-> 0]

\* module load: _publisher = None, nothing constructed
PublisherUnset ==
  /\ publisher = 0
  /\ built = <<>>
  /\ thr = [t \in PubThreads |-> ThreadIdle]
  /\ returned = {}

\* an empty table, no request in flight, nothing published
ServiceInit ==
  /\ jobs = {}
  /\ nextId = 1
  /\ sess = [c \in Clients |-> Idle]
  /\ last = NoResponse
  /\ messages = <<>>
  /\ touched = {}

Init ==
  /\ ServiceInit
  /\ doc = EmptyDict
  /\ orig = EmptyDict
  /\ stage = "in"
  /\ PublisherUnset
  /\ environ = [k \in EnvKeys |-> None]

(* -------------------------------------------------------------- handlers *)
\* create_job without the existence check
NeverExists(existing) == FALSE

\* replace_job without the body/path comparison
MismatchIgnored(job_payload, external_id) == FALSE

\* update_job without the externalId guard
ExternalIdUnguarded(updates) == FALSE

\* create_job: if existing
AlreadyExists(existing) == existing # {}

\* replace_job: job_payload.external_id != external_id
ExternalIdMismatch(job_payload, external_id) ==
  job_payload["externalId"] # external_id

\* update_job: "external_id" in updates
TouchesExternalId(updates) == "external_id" \in DOMAIN updates

\* get_all_jobs: one summary per stored row
Summary(job) ==
  [id |-> job["id"], version |-> job["version"],
   externalId |-> job["external_id"]]

\* GET /jobs
GetAllJobs(c) ==
  /\ last = NoResponse
  /\ sess[c].pc = "idle"
  /\ last' = [NoResponse EXCEPT !.op = "list", !.status = 200,
                                !.body = [n \in {r["id"] : r \in jobs} |->
                                   Summary(CHOOSE r \in jobs : r["id"] = n)]]
  /\ UNCHANGED <<jobs, nextId, sess, messages, touched, mapVars, pubVars>>

\* GET /jobs/{external_id}
GetJobByExternalId(c) ==
  /\ last = NoResponse
  /\ sess[c].pc = "idle"
  /\ \E external_id \in ExternalIds :
       IF Lookup(external_id) = {}
       THEN Respond("get", external_id, EmptyDict, NoJob, 404, EmptyDict)
       ELSE \E job \in Lookup(external_id) :
              Respond("get", external_id, EmptyDict, job, 200,
                      JobModelToResponse(job))
  /\ UNCHANGED <<jobs, nextId, sess, messages, touched, mapVars, pubVars>>

\* POST /jobs up to db.add: the existence lookup, then the new object
CreateJob(c) ==
  /\ last = NoResponse
  /\ sess[c].pc = "idle"
  /\ \E job_payload \in CreatePayloads :
       LET normalized == Normalize(job_payload)
           existing == Lookup(job_payload["externalId"])
       IN IF AlreadyExists(existing)
          THEN /\ \E e \in existing :
                    Respond("create", None, normalized, e, 409, EmptyDict)
               /\ UNCHANGED sess
          ELSE /\ sess' = [sess EXCEPT ![c] =
                   [pc |-> "insert", op |-> "create", path |-> None,
                    updates |-> normalized, loaded |-> NoJob]]
               /\ UNCHANGED last
  /\ UNCHANGED <<jobs, nextId, messages, touched, mapVars, pubVars>>

\* POST /jobs from db.commit() on: the INSERT, refused by a violated
\* constraint, then db.refresh(new_job) and the 201 response
CreateCommit(c) ==
  /\ last = NoResponse
  /\ sess[c].pc = "insert"
  /\ nextId <= MaxIds
  /\ LET new_job == NewJob(sess[c].updates, nextId)
     IN IF IntegrityOK(jobs \cup {new_job})
        THEN /\ jobs' = jobs \cup {new_job}
             /\ nextId' = nextId + 1
             /\ Respond("create", None, sess[c].updates, NoJob, 201,
                        JobModelToResponse(new_job))
        ELSE /\ Respond("create", None, sess[c].updates, NoJob, 500, EmptyDict)
             /\ UNCHANGED <<jobs, nextId>>
  /\ sess' = [sess EXCEPT ![c] = Idle]
  /\ UNCHANGED <<messages, touched, mapVars, pubVars>>

\* PUT /jobs/{external_id} up to the commit (versions stop at MaxVersion)
ReplaceJob(c) ==
  /\ last = NoResponse
  /\ sess[c].pc = "idle"
  /\ \E external_id \in ExternalIds, job_payload \in CreatePayloads :
       LET normalized == Normalize(job_payload)
       IN IF ExternalIdMismatch(job_payload, external_id)
          THEN /\ Respond("replace", external_id, normalized, NoJob, 400,
                          EmptyDict)
               /\ UNCHANGED sess
          ELSE IF Lookup(external_id) = {}
          THEN /\ Respond("replace", external_id, normalized, NoJob, 404,
                          EmptyDict)
               /\ UNCHANGED sess
          ELSE \E job \in Lookup(external_id) :
                 /\ job["version"] < MaxVersion
                 /\ sess' = [sess EXCEPT ![c] =
                      [pc |-> "update", op |-> "replace", path |-> external_id,
                       updates |-> normalized, loaded |-> job]]
                 /\ UNCHANGED last
  /\ UNCHANGED <<jobs, nextId, messages, touched, mapVars, pubVars>>

\* PATCH /jobs/{external_id} up to the commit, or to the response when the
\* request is refused or sets no field (versions stop at MaxVersion)
UpdateJob(c) ==
  /\ last = NoResponse
  /\ sess[c].pc = "idle"
  /\ \E external_id \in ExternalIds, job_payload \in PatchPayloads :
       LET updates == Normalize(job_payload)
       IN IF Lookup(external_id) = {}
          THEN /\ Respond("update", external_id, updates, NoJob, 404, EmptyDict)
               /\ UNCHANGED sess
          ELSE \E job \in Lookup(external_id) :
                 IF TouchesExternalId(updates)
                 THEN /\ Respond("update", external_id, updates, job, 400,
                                 EmptyDict)
                      /\ UNCHANGED sess
                 ELSE IF DOMAIN updates = {}
                 THEN /\ Respond("update", external_id, updates, job, 200,
                                 JobModelToResponse(job))
                      /\ UNCHANGED sess
                 ELSE /\ job["version"] < MaxVersion
                      /\ sess' = [sess EXCEPT ![c] =
                           [pc |-> "update", op |-> "update",
                            path |-> external_id, updates |-> updates,
                            loaded |-> job]]
                      /\ UNCHANGED last
  /\ UNCHANGED <<jobs, nextId, messages, touched, mapVars, pubVars>>

\* replace_job / update_job from db.commit() on: the UPDATE of the changed
\* columns, refused by a violated constraint, then db.refresh(job) and the
\* 200 response built from the refreshed row
UpdateCommit(c) ==
  /\ last = NoResponse
  /\ sess[c].pc = "update"
  /\ LET table == Flush(jobs, sess[c].loaded,
                        SessionJob(sess[c].loaded, sess[c].updates))
     IN IF IntegrityOK(table)
        THEN /\ jobs' = table
             /\ touched' = touched \cup {sess[c].loaded["id"]}
             /\ \E job \in {r \in table : r["id"] = sess[c].loaded["id"]} :
                  Respond(sess[c].op, sess[c].path, sess[c].updates,
                          sess[c].loaded, 200, JobModelToResponse(job))
        ELSE /\ Respond(sess[c].op, sess[c].path, sess[c].updates,
                        sess[c].loaded, 500, EmptyDict)
             /\ UNCHANGED <<jobs, touched>>
  /\ sess' = [sess EXCEPT ![c] = Idle]
  /\ UNCHANGED <<nextId, messages, mapVars, pubVars>>

\* the response leaves the service; the next request is taken after it
Return ==
  /\ last # NoResponse
  /\ last' = NoResponse
  /\ UNCHANGED <<jobs, nextId, sess, messages, touched, mapVars, pubVars>>

\* requests served concurrently, each on its own session
Next ==
  \/ \E c \in Clients : GetAllJobs(c)
  \/ \E c \in Clients : GetJobByExternalId(c)
  \/ \E c \in Clients : CreateJob(c)
  \/ \E c \in Clients : CreateCommit(c)
  \/ \E c \in Clients : ReplaceJob(c)
  \/ \E c \in Clients : UpdateJob(c)
  \/ \E c \in Clients : UpdateCommit(c)
  \/ Return

Spec == Init /\ [][Next]_vars

\* no other client has a request in flight
Alone(c) == \A d \in Clients \ {c} : sess[d].pc = "idle"

\* requests served one after another
NextSeq ==
  \/ \E c \in Clients : Alone(c) /\ GetAllJobs(c)
  \/ \E c \in Clients : Alone(c) /\ GetJobByExternalId(c)
  \/ \E c \in Clients : Alone(c) /\ CreateJob(c)
  \/ \E c \in Clients : Alone(c) /\ CreateCommit(c)
  \/ \E c \in Clients : Alone(c) /\ ReplaceJob(c)
  \/ \E c \in Clients : Alone(c) /\ UpdateJob(c)
  \/ \E c \in Clients : Alone(c) /\ UpdateCommit(c)
  \/ Return

SeqSpec == Init /\ [][NextSeq]_vars

(* ----------------------------------------------------------- the notifier *)
\* build_queue_message, without the clock: what the publisher is handed
BuildQueueMessage(id, external_id, operation) ==
  [id |-> id, externalId |-> external_id, operation |-> operation]

(* ------------------------------------------------ the publisher's resolver *)
\* the process starts under any settings
PubInit ==
  /\ ServiceInit
  /\ doc = EmptyDict
  /\ orig = EmptyDict
  /\ stage = "in"
  /\ PublisherUnset
  /\ environ \in [EnvKeys -> EnvValues]

\* the transport chosen from the settings a call has read
ChoosePublisher(queue_url, queue_name) ==
  IF Truthy(queue_url) \/ Truthy(queue_name)
  THEN [kind |-> "SqsQueuePublisher",
        queue_url |-> queue_url, queue_name |-> queue_name]
  ELSE [kind |-> "NoOpQueuePublisher",
        queue_url |-> None, queue_name |-> None]

\* a call enters get_queue_publisher: if _publisher is None
PubCheck(t) ==
  /\ thr[t].pc = "idle"
  /\ thr' = [thr EXCEPT ![t].pc =
               IF publisher = 0 THEN "getenv_url" ELSE "return"]
  /\ UNCHANGED <<environ, publisher, built, returned>>
  /\ UNCHANGED <<svcVars, mapVars>>

\* queue_url = os.getenv("SQS_QUEUE_URL")
PubGetenvUrl(t) ==
  /\ thr[t].pc = "getenv_url"
  /\ thr' = [thr EXCEPT ![t].pc = "getenv_name",
                        ![t].queue_url = environ["SQS_QUEUE_URL"]]
  /\ UNCHANGED <<environ, publisher, built, returned>>
  /\ UNCHANGED <<svcVars, mapVars>>

\* queue_name = os.getenv("SQS_QUEUE_NAME")
PubGetenvName(t) ==
  /\ thr[t].pc = "getenv_name"
  /\ thr' = [thr EXCEPT ![t].pc = "construct",
                        ![t].queue_name = environ["SQS_QUEUE_NAME"]]
  /\ UNCHANGED <<environ, publisher, built, returned>>
  /\ UNCHANGED <<svcVars, mapVars>>

\* SqsQueuePublisher(...) or NoOpQueuePublisher(): a new instance
PubConstruct(t) ==
  /\ thr[t].pc = "construct"
  /\ built' = Append(built,
                     ChoosePublisher(thr[t].queue_url, thr[t].queue_name))
  /\ thr' = [thr EXCEPT ![t].pc = "assign", ![t].made = Len(built) + 1]
  /\ UNCHANGED <<environ, publisher, returned>>
  /\ UNCHANGED <<svcVars, mapVars>>

\* _publisher = <the new instance>
PubAssign(t) ==
  /\ thr[t].pc = "assign"
  /\ publisher' = thr[t].made
  /\ thr' = [thr EXCEPT ![t].pc = "return"]
  /\ UNCHANGED <<environ, built, returned>>
  /\ UNCHANGED <<svcVars, mapVars>>

\* return _publisher
PubReturn(t) ==
  /\ thr[t].pc = "return"
  /\ returned' = returned \cup {publisher}
  /\ thr' = [thr EXCEPT ![t] = ThreadIdle]
  /\ UNCHANGED <<environ, publisher, built>>
  /\ UNCHANGED <<svcVars, mapVars>>

\* the settings change while the process runs
Setenv(k, v) ==
  /\ environ[k] # v
  /\ environ' = [environ EXCEPT ![k] = v]
  /\ UNCHANGED <<publisher, built, thr, returned>>
  /\ UNCHANGED <<svcVars, mapVars>>

\* calls of get_queue_publisher on the threads of one process
PubNext ==
  \/ \E t \in PubThreads : PubCheck(t)
  \/ \E t \in PubThreads : PubGetenvUrl(t)
  \/ \E t \in PubThreads : PubGetenvName(t)
  \/ \E t \in PubThreads : PubConstruct(t)
  \/ \E t \in PubThreads : PubAssign(t)
  \/ \E t \in PubThreads : PubReturn(t)
  \/ \E k \in EnvKeys, v \in EnvValues : Setenv(k, v)

PubSpec == PubInit /\ [][PubNext]_vars

(* ------------------------------------------------------- the field mapper *)
\* the wire names of the job schema: the aliases of the fields the response
\* is built from, the store-assigned id and version aside
SchemaWireNames ==
  {WireAlias(ResponseFieldOf(c)) : c \in AllColumns \ {"id", "version"}}

\* every wire name the mapper knows: the schema's and the keys of FIELD_MAP
KnownWireNames == SchemaWireNames \cup DOMAIN FIELD_MAP

\* dumped values: a string, an Enum member
MapValues == {"v1", "Approach.external"}

\* payloads of one or two fields
MapPayloads ==
  UNION {[{a, b} -> MapValues] : a \in KnownWireNames, b \in KnownWireNames}

MapInit ==
  /\ ServiceInit
  /\ \E p \in MapPayloads : orig = p /\ doc = p
  /\ stage = "in"
  /\ PublisherUnset
  /\ environ = [k \in EnvKeys |-> None]

\* wire -> storage: _normalize_payload
MapToStorage ==
  /\ stage \in {"in", "out"}
  /\ doc' = Normalize(doc)
  /\ stage' = "storage"
  /\ UNCHANGED <<orig, jobs, nextId, sess, last, messages, touched, pubVars>>

\* storage -> wire: _job_model_to_response, dumped by alias
MapToWire ==
  /\ stage = "storage"
  /\ doc' = JobModelToResponse(doc)
  /\ stage' = "out"
  /\ UNCHANGED <<orig, jobs, nextId, sess, last, messages, touched, pubVars>>

MapNext == MapToStorage \/ MapToWire

MapSpec == MapInit /\ [][MapNext]_vars

(* ================================================================ claims *)
RECURSIVE SumVersions(_)
SumVersions(table) ==
  IF table = {} THEN 0
  ELSE LET r == CHOOSE r \in table : TRUE
       IN r["version"] + SumVersions(table \ {r})

\* the row a response body describes is in the table
Stored(body) ==
  \E r \in jobs : JobModelToResponse(r) = body

\* C1: a create with a fresh external id stores version 1: the 201 body has
\* version 1 and describes the stored row, and until a replace or update
\* commits to a row, the row, its get and its list summary report version 1.
C1_CreateStoresVersionOne ==
  /\ (last.op = "create" /\ last.status = 201) =>
        last.body["version"] = 1 /\ Stored(last.body)
  /\ \A r \in jobs : r["id"] \notin touched => r["version"] = 1
  /\ (last.op = "get" /\ last.status = 200) =>
        (last.body["id"] \notin touched => last.body["version"] = 1)
  /\ (last.op = "list") =>
        \A n \in DOMAIN last.body :
           n \notin touched => last.body[n].version = 1

C1_Witness ==
  /\ last.op = "get" /\ last.status = 200
  /\ last.body["id"] \notin touched
  /\ last.body["version"] = 1

\* C2: a create whose external id is already stored answers 409 and changes
\* nothing: no row is added and every row keeps its version and its fields.
C2_DuplicateCreateConflicts ==
  [][(/\ last = NoResponse
      /\ last'.op = "create"
      /\ \E r \in jobs : r["external_id"] = last'.updates["external_id"])
     => (last'.status = 409 /\ jobs' = jobs /\ nextId' = nextId)]_vars

C2_Witness ==
  /\ last.op = "create" /\ last.status = 409
  /\ last.read \in jobs
  /\ last.read["external_id"] = last.updates["external_id"]
  /\ last.read["summary"] # last.updates["summary"]

\* C3: a replace that answers 200 leaves the row's version exactly one above
\* the version stored before the call, whatever the payload's values, and
\* the body carries that version.
C3_ReplaceIncrementsVersion ==
  [][\A c \in Clients :
       (sess[c].pc = "update" /\ sess[c].op = "replace" /\ last'.status = 200)
       => \E r \in jobs, r2 \in jobs' :
            /\ r["id"] = sess[c].loaded["id"]
            /\ r2["id"] = r["id"]
            /\ r2["version"] = r["version"] + 1
            /\ last'.body["version"] = r["version"] + 1]_vars

C3_Witness ==
  /\ last.op = "replace" /\ last.status = 200
  /\ \A k \in DOMAIN last.updates : last.updates[k] = last.read[k]
  /\ last.body["version"] = last.read["version"] + 1

\* the row a partial update is meant to leave behind
Patched(job, updates) ==
  [c \in DOMAIN job |->
     IF c = "version" THEN job["version"] + 1
     ELSE IF c \in DOMAIN updates THEN updates[c]
     ELSE job[c]]

\* C4: a PATCH on an existing record with no field set changes nothing and
\* answers 200 with the current record; with fields set it overwrites exactly
\* those, keeps the others, and raises the version by exactly 1.
C4_PatchAppliesSuppliedFields ==
  [][(/\ last = NoResponse
      /\ last'.op = "update"
      /\ last'.read # NoJob
      /\ "external_id" \notin DOMAIN last'.updates)
     => /\ last'.status = 200
        /\ IF DOMAIN last'.updates = {}
           THEN /\ jobs' = jobs
                /\ last'.body = JobModelToResponse(last'.read)
           ELSE /\ jobs' = (jobs \ {last'.read})
                             \cup {Patched(last'.read, last'.updates)}
                /\ last'.body =
                     JobModelToResponse(Patched(last'.read, last'.updates))]_vars

\* the request answered by resp committed a mutation
Mutating(resp) ==
  \/ resp.op = "create" /\ resp.status = 201
  \/ resp.op = "replace" /\ resp.status = 200
  \/ resp.op = "update" /\ resp.status = 200 /\ DOMAIN resp.updates # {}

OperationTag(op) ==
  IF op = "create" THEN "Create"
  ELSE IF op = "replace" THEN "Replace"
  ELSE "Update"

\* C5: the notifier is handed one message per committed create, replace and
\* non-empty update, after the commit, with the row's internal and external
\* id and the operation's tag, and none for any other request.
C5_NotifiedOncePerMutation ==
  /\ Len(messages) = SumVersions(jobs)
  /\ Mutating(last) =>
       /\ messages # <<>>
       /\ messages[Len(messages)] =
            BuildQueueMessage(last.body["id"], last.body["externalId"],
                              OperationTag(last.op))

\* C6: a replace whose body external id differs from the path's answers 400,
\* whether or not a record with the path's id exists, changes no row and
\* publishes nothing.
C6_ReplaceMismatchRejected ==
  [][(/\ last = NoResponse
      /\ last'.op = "replace"
      /\ last'.updates["external_id"] # last'.path)
     => /\ last'.status = 400
        /\ jobs' = jobs
        /\ sess' = sess
        /\ messages' = messages]_vars

C6_Witness ==
  /\ last.op = "replace" /\ last.status = 400
  /\ last.updates["external_id"] # last.path
  /\ Lookup(last.path) = {}
  /\ jobs # {}

\* C7: a PATCH on an existing record whose payload carries another external
\* id answers 400 and changes nothing: no other field of the payload is
\* applied, the version stays, nothing is published.
C7_PatchExternalIdRejected ==
  [][(/\ last = NoResponse
      /\ last'.op = "update"
      /\ last'.read # NoJob
      /\ "external_id" \in DOMAIN last'.updates
      /\ last'.updates["external_id"] # last'.read["external_id"])
     => /\ last'.status = 400
        /\ jobs' = jobs
        /\ sess' = sess
        /\ messages' = messages]_vars

C7_Witness ==
  /\ last.op = "update" /\ last.status = 400
  /\ last.read \in jobs
  /\ "external_id" \in DOMAIN last.updates
  /\ last.updates["external_id"] # last.read["external_id"]
  /\ "summary" \in DOMAIN last.updates
  /\ last.updates["summary"] # last.read["summary"]

\* C8: no two rows of the table share an external id, under every
\* interleaving of the requests' database round trips.
C8_ExternalIdUnique ==
  \A r1, r2 \in jobs : r1["external_id"] = r2["external_id"] => r1 = r2

\* two creates of one external id both passed the lookup; the second commit
\* was refused
C8_Witness ==
  /\ last.op = "create" /\ last.status = 500
  /\ \E r \in jobs : r["external_id"] = last.updates["external_id"]

\* C9: every row keeps its internal id and its external id through every
\* step of every request.
C9_IdentifiersFrozen ==
  [][\A r \in jobs :
       \E r2 \in jobs' :
          r2["id"] = r["id"] /\ r2["external_id"] = r["external_id"]]_vars

C9_Witness ==
  /\ last.op = "update" /\ last.status = 200
  /\ DOMAIN last.updates # {}
  /\ last.read["version"] > 1
  /\ last.body["id"] = last.read["id"]
  /\ last.body["externalId"] = last.read["external_id"]

\* the translated mapping against the payload it started from: in storage
\* form no two fields share a column; back in wire form every field stands
\* under its own name with its plain value; translated again it is the same
RoundTrips ==
  /\ stage = "storage" =>
       /\ Cardinality(DOMAIN doc) = Cardinality(DOMAIN orig)
       /\ doc = Normalize(orig)
  /\ stage = "out" =>
       /\ DOMAIN doc = DOMAIN orig
       /\ \A k \in DOMAIN orig : doc[k] = ToPlain(orig[k])

\* C10, as stated: FIELD_MAP is one-to-one, so every payload over the wire
\* names it knows comes back from wire -> storage -> wire unchanged.
C10_FieldMapOneToOne == RoundTrips

\* C10, amended: distinct wire names of the schema map to distinct columns,
\* and a payload over the schema's wire names comes back from
\* wire -> storage -> wire with every field under its own name and value,
\* and translates again to the same storage mapping.
C10_SchemaRoundTrip ==
  DOMAIN orig \subseteq SchemaWireNames => RoundTrips

C10_Witness ==
  /\ stage = "out"
  /\ DOMAIN orig = {"dateClosing", "datePosted"}
  /\ orig["dateClosing"] # orig["datePosted"]
  /\ orig["datePosted"] = "Approach.external"
  /\ doc["dateClosing"] = "v1"
  /\ doc["datePosted"] = "External"

\* ---------------------------------------------------------------------
\* C11: two replace / partial-update requests that both read the record
\* at version v before either commits

\* the commit of client c's replace / partial update
Commits(c) == sess[c].pc = "update" /\ sess'[c].pc = "idle"

\* the row the request of c loaded, as the table holds it now
StoredOf(c, table) == {r \in table : r["id"] = sess[c].loaded["id"]}

\* c read version v, and another request that read v too has committed
\* v + 1 before c commits
SecondOfRace(c) ==
  /\ Commits(c)
  /\ \E r \in StoredOf(c, jobs) :
       r["version"] = sess[c].loaded["version"] + 1

\* the columns the request of c assigns (the version is set on its own)
Written(c) == DOMAIN sess[c].updates \ {"id", "version"}

\* C11, as stated: when the second request of the race commits, the record
\* ends at version v + 1 (not v + 2) and every field the request wrote
\* holds the value of this, the later, commit.
C11_LaterCommitStored ==
  [][\A c \in Clients :
       (SecondOfRace(c) /\ last'.status = 200) =>
         \A r \in StoredOf(c, jobs') :
           /\ r["version"] = sess[c].loaded["version"] + 1
           /\ \A f \in Written(c) : r[f] = sess[c].updates[f]]_vars

\* C11, amended: there is no version check, so the second request of the
\* race is refused only for what its own payload holds, never for the
\* first commit; a commit that succeeds leaves the record at version v + 1
\* (not v + 2); a field it wrote holds its value when that value differs
\* from the one it had read, and otherwise the column is not written and
\* keeps what the first commit stored, like every field it did not write;
\* a refused commit leaves the table as it was.
C11_RacingCommits ==
  [][\A c \in Clients :
       SecondOfRace(c) =>
         /\ last'.status \in {200, 500}
         /\ last'.status = 200 <=>
              \A f \in NotNullColumns \ {"id", "version"} :
                SessionJob(sess[c].loaded, sess[c].updates)[f] # None
         /\ last'.status = 500 => jobs' = jobs
         /\ last'.status = 200 =>
              \A old \in StoredOf(c, jobs) : \E r \in StoredOf(c, jobs') :
                /\ jobs' = (jobs \ {old}) \cup {r}
                /\ r["id"] = old["id"]
                /\ r["version"] = sess[c].loaded["version"] + 1
                /\ \A f \in Written(c) :
                     r[f] = IF sess[c].updates[f] # sess[c].loaded[f]
                            THEN sess[c].updates[f] ELSE old[f]
                /\ \A f \in DOMAIN r \ (Written(c) \cup {"id", "version"}) :
                     r[f] = old[f]]_vars

\* the second commit of a race has answered 200 at version v + 1; it had
\* set summary to the value it read, and the stored summary is the other
\* request's
C11_Witness ==
  /\ last.status = 200
  /\ last.op \in {"replace", "update"}
  /\ "summary" \in DOMAIN last.updates
  /\ last.updates["summary"] = last.read["summary"]
  /\ last.body["version"] = last.read["version"] + 1
  /\ last.body["summary"] # last.read["summary"]
  /\ \E r \in jobs : r["id"] = last.read["id"]
                     /\ r["summary"] = last.body["summary"]
                     /\ r["version"] = last.body["version"]


\* ---------------------------------------------------------------------
\* C12: a PATCH on an existing record whose payload carries the record's
\* own external id (unchanged) is not answered 400, and when it answers 200
\* the other supplied fields are applied.
C12_UnchangedExternalIdAccepted ==
  [][(/\ last = NoResponse
      /\ last'.op = "update"
      /\ last'.read # NoJob
      /\ "external_id" \in DOMAIN last'.updates
      /\ last'.updates["external_id"] = last'.read["external_id"])
     => /\ last'.status # 400
        /\ last'.status = 200 =>
             jobs' = (jobs \ {last'.read})
                       \cup {Patched(last'.read, last'.updates)}]_vars

\* ---------------------------------------------------------------------
\* C13: over every interleaving of get_queue_publisher calls in one
\* process a publisher is constructed at most once, every call returns that
\* one instance (a no-op publisher when neither setting was configured
\* when it was resolved), and later changes of the settings do not change
\* the publisher the calls return.
C13_ResolvedOnce ==
  /\ Len(built) <= 1
  /\ returned \subseteq {1}
  /\ publisher \in {0, 1}
  /\ \A i \in DOMAIN built :
       built[i].kind = "NoOpQueuePublisher" <=>
         (~Truthy(built[i].queue_url) /\ ~Truthy(built[i].queue_name))

====
